---- MODULE Spec2Model ----
(***************************************************************************)
(* Model of forwarder.py: the MQTT -> InfluxDB bridge.                     *)
(*                                                                         *)
(* Strings that the code inspects character by character (the topic, the  *)
(* topic prefix, node and measurement names) are sequences of one-         *)
(* character strings.  Payloads are taken from a catalogue of concrete     *)
(* byte strings; json.loads and float are modelled by what they return on  *)
(* each of them.                                                           *)
(***************************************************************************)
EXTENDS Integers, Sequences, FiniteSets, TLC

VARIABLES
    py,            \* major version of the interpreter running the script
    topic_prefix,  \* MQTTSource.topic_prefix, after _setup_handlers
    node_names,    \* MQTTSource.node_names (allow-list)
    stringify,     \* MQTTSource.stringify
    has_stores,    \* hasattr(self, '_stores')
    stores,        \* MessageSource._stores
    started,       \* start() has been called
    nextId,        \* arrival number of the next published message
    inbox,         \* messages received by the client, not yet handed to on_message
    pc,            \* "idle" | "dispatch" | "crashed" : position of the consumer loop
    cur,           \* the event on_message is dispatching
    pending,       \* the copy of the sink list the for loop iterates over
    idx,           \* position of the for loop in pending
    calls,         \* every store_msg call made so far, in order
    results        \* outcome of every on_message invocation so far, in order

vars == <<py, topic_prefix, node_names, stringify, has_stores, stores, started,
          nextId, inbox, pc, cur, pending, idx, calls, results>>

(***************************************************************************)
(* Bounds                                                                  *)
(***************************************************************************)
MaxStores == 2      \* register_store calls
MaxEvents == 2      \* messages published in the pipeline specification
MaxTopicLen == 6    \* characters of a topic in the topic specification
MaxPrefixLen == 2   \* characters of a configured prefix in the topic specification

Sinks == {"s1", "s2"}

\* Characters of the topic specification: a word character, a token
\* character that is also a regex metacharacter, the separator, and a
\* character outside the token class that is also a regex metacharacter.
Alphabet == {"a", ".", "/", "$"}

WordChars == {"a", "h", "n", "x", "t", "s"}

SeqsUpTo(S, n) == UNION {[1..k -> S] : k \in 0..n}

AllTopics == SeqsUpTo(Alphabet, MaxTopicLen)

AllPrefixes == SeqsUpTo(Alphabet, MaxPrefixLen)

PipelinePrefixes == {<<"h", "/">>}

PipelineTopics ==
    { <<"/", "h", "/", "n", "/", "t">>,      \* listed node
      <<"/", "h", "/", "x", "/", "t">>,      \* node outside the allow-list
      <<"/", "h", "/", "n">> }               \* no measurement segment

PipelinePayloads == {"23.4", "{\"a\": null}"}

DecodeTopics ==
    { <<"/", "h", "/", "n", "/", "t">>,
      <<"/", "h", "/", "n", "/", "s">> }     \* measurement of the stringify set

Payloads ==
    { "23.4", "open", "", "true", "[1]",
      "{\"a\": \"1.5\", \"b\": \"x\"}", "{\"a\": null}", "{\"a\": true}", "{\"a\": [1]}" }

(***************************************************************************)
(* Python values                                                           *)
(***************************************************************************)
PyFloatVal(n) == [t |-> "float", s |-> "", n |-> n]     \* n: the number in tenths
PyStr(s)      == [t |-> "str", s |-> s, n |-> 0]
PyBytes(s)    == [t |-> "bytes", s |-> s, n |-> 0]
PyBool(b)     == [t |-> "bool", s |-> "", n |-> IF b THEN 1 ELSE 0]
PyNone        == [t |-> "None", s |-> "", n |-> 0]
PyList(s)     == [t |-> "list", s |-> s, n |-> 0]

(***************************************************************************)
(* _setup_handlers, lines 97-102: the prefix is given a leading slash and  *)
(* loses one trailing slash.                                               *)
(***************************************************************************)
NormalizePrefix(p) ==
    IF Len(p) = 0
    THEN p
    ELSE LET q == IF p[1] = "/" THEN p ELSE <<"/">> \o p
         IN  IF q[Len(q)] = "/" THEN SubSeq(q, 1, Len(q) - 1) ELSE q

(***************************************************************************)
(* on_message, lines 117-121: regex.match of                               *)
(*   {topic_prefix}/(?P<node_name>TOKEN)/(?P<measurement_name>TOKEN)/?     *)
(* with TOKEN = (?:\w|-|\.)+ .  match anchors at the start of the topic    *)
(* only.  The prefix is interpolated into the pattern as it is, so its     *)
(* characters are pattern atoms: "." matches any character, "$" is the     *)
(* end-of-string assertion (it can never be followed by the "/" the        *)
(* pattern requires next, so a prefix holding it matches nothing), every   *)
(* other character of WordChars and Alphabet stands for itself.            *)
(***************************************************************************)
TokenChars == WordChars \cup {"-", "."}

Range(f) == {f[i] : i \in DOMAIN f}

\* Position after the prefix atoms, 0 when they do not match.
PrefixEnd(prefix, t) ==
    IF "$" \in Range(prefix) THEN 0
    ELSE IF /\ Len(t) >= Len(prefix)
            /\ \A i \in 1..Len(prefix) : prefix[i] = "." \/ prefix[i] = t[i]
         THEN Len(prefix) + 1
         ELSE 0

\* Position after the longest run of token characters that starts at i.
\* TOKEN is greedy and is always followed by something that is not a token
\* character, so backtracking never shortens it.
RECURSIVE RunEnd(_, _)
RunEnd(t, i) ==
    IF i <= Len(t) /\ t[i] \in TokenChars THEN RunEnd(t, i + 1) ELSE i

NoMatch == [matched |-> FALSE, node_name |-> <<>>, measurement_name |-> <<>>]

RegexMatch(prefix, t) ==
    LET s  == PrefixEnd(prefix, t)
        e1 == RunEnd(t, s + 1)
        e2 == RunEnd(t, e1 + 1)
    IN  IF /\ s > 0
           /\ s <= Len(t) /\ t[s] = "/"
           /\ e1 > s + 1
           /\ e1 <= Len(t) /\ t[e1] = "/"
           /\ e2 > e1 + 1
        THEN [matched |-> TRUE,
              node_name |-> SubSeq(t, s + 1, e1 - 1),
              measurement_name |-> SubSeq(t, e1 + 1, e2 - 1)]
        ELSE NoMatch

(***************************************************************************)
(* on_message, lines 126-131: a node outside the allow-list is logged and  *)
(* the handler goes on.                                                    *)
(***************************************************************************)
\* Variant: the allow-list gates forwarding.
NodeCheckGatekeep(node, names) == [warn |-> node \notin names, proceed |-> node \in names]

NodeCheck(node, names) == [warn |-> node \notin names, proceed |-> TRUE]

(***************************************************************************)
(* json.loads (line 137) and float (lines 145, 154) on the catalogue.      *)
(***************************************************************************)
\* Catalogue texts that are JSON documents but not JSON objects.
JsonNonObjects == {"23.4", "true", "[1]"}

JsonObjects ==
    ("{\"a\": \"1.5\", \"b\": \"x\"}" :> [a |-> PyStr("1.5"), b |-> PyStr("x")]) @@
    ("{\"a\": null}" :> [a |-> PyNone]) @@
    ("{\"a\": true}" :> [a |-> PyBool(TRUE)]) @@
    ("{\"a\": [1]}" :> [a |-> PyList("[1]")])

JsonLoads(p) ==
    IF p \in DOMAIN JsonObjects THEN [exc |-> "none", isdict |-> TRUE]
    ELSE IF p \in JsonNonObjects THEN [exc |-> "none", isdict |-> FALSE]
    ELSE [exc |-> "ValueError", isdict |-> FALSE]

\* lines 135-140: ValueError is swallowed, is_value_json_dict stays False
IsJsonDict(p) == JsonLoads(p).exc = "none" /\ JsonLoads(p).isdict

\* Texts float() accepts, with their value in tenths.
NumericText == ("23.4" :> 234) @@ ("1.5" :> 15)

PyFloat(v) ==
    CASE v.t = "float" -> [exc |-> "none", val |-> v]
      [] v.t \in {"str", "bytes"} ->
            IF v.s \in DOMAIN NumericText
            THEN [exc |-> "none", val |-> PyFloatVal(NumericText[v.s])]
            ELSE [exc |-> "ValueError", val |-> v]
      [] v.t = "bool" -> [exc |-> "none", val |-> PyFloatVal(10 * v.n)]
      [] OTHER -> [exc |-> "TypeError", val |-> v]

\* msg.payload as paho-mqtt hands it over: bytes, which Python 2 calls str.
RawPayload(ver, p) == IF ver = 2 THEN PyStr(p) ELSE PyBytes(p)

\* line 151, str(value): the identity on a Python 2 str, the repr of a
\* Python 3 bytes object.
PyStrOf(ver, v) ==
    IF v.t = "bytes" /\ ver = 3 THEN PyStr("b'" \o v.s \o "'") ELSE PyStr(v.s)

NoFields == [k \in {} |-> PyNone]

\* lines 133-157
Decode(ver, p, measurement_name, strset) ==
    LET value == RawPayload(ver, p)
    IN  IF IsJsonDict(p)
        THEN LET stored_message == JsonObjects[p]
                 f == [key \in DOMAIN stored_message |-> PyFloat(stored_message[key])]
             IN  IF \E key \in DOMAIN f : f[key].exc = "TypeError"
                 THEN [exc |-> "TypeError", fields |-> NoFields]
                 ELSE [exc |-> "none",
                       fields |-> [key \in DOMAIN f |->
                                     IF f[key].exc = "none" THEN f[key].val
                                     ELSE stored_message[key]]]
        ELSE [exc |-> "none",
              fields |-> [value |->
                            IF measurement_name \in strset
                            THEN PyStrOf(ver, value)
                            ELSE IF PyFloat(value).exc = "none"
                                 THEN PyFloat(value).val
                                 ELSE value]]

(***************************************************************************)
(* InfluxStore.store_msg, lines 46-60.  write_points either succeeds,      *)
(* fails with requests.exceptions.ConnectionError (backend unreachable),   *)
(* or fails with the client library's own error (backend rejects the       *)
(* point).  Only the first failure is caught.  The source always passes a  *)
(* dict, so the ValueError of line 48 is never raised from on_message.     *)
(***************************************************************************)
WriteOutcomes == {"ok", "ConnectionError", "InfluxDBClientError"}

StoreMsgRaises(outcome) == outcome \notin {"ok", "ConnectionError"}

(***************************************************************************)
(* start, lines 165-171: loop_forever hands the received messages to       *)
(* on_message one at a time, oldest first.                                 *)
(***************************************************************************)
\* Variant: the newest received message is handled first.
DequeueNewest(q) == [msg |-> q[Len(q)], rest |-> SubSeq(q, 1, Len(q) - 1)]

Dequeue(q) == [msg |-> Head(q), rest |-> Tail(q)]

(***************************************************************************)
(* State after construction (MQTTSource.__init__ with _setup_handlers):    *)
(* the prefix is normalised, no sink is registered, _stores does not       *)
(* exist yet.                                                              *)
(***************************************************************************)
NoEvent == [id |-> 0, topic |-> <<>>, payload |-> "", node_name |-> <<>>,
            measurement_name |-> <<>>, fields |-> NoFields, warned |-> FALSE]

Configure(prefixes) ==
    /\ py \in {2, 3}
    /\ \E p \in prefixes : topic_prefix = NormalizePrefix(p)
    /\ node_names = {<<"n">>}
    /\ stringify = {<<"s">>}
    /\ nextId = 1
    /\ inbox = <<>>
    /\ pc = "idle"
    /\ cur = NoEvent
    /\ pending = <<>>
    /\ idx = 0
    /\ calls = <<>>
    /\ results = <<>>

Init ==
    /\ Configure(PipelinePrefixes)
    /\ has_stores = FALSE
    /\ stores = <<>>
    /\ started = FALSE

\* main, lines 204-212: one sink registered, the loop started.
Running ==
    /\ has_stores = TRUE
    /\ stores = <<"s1">>
    /\ started = TRUE

InitTopic == Configure(AllPrefixes) /\ Running

InitDecode == Configure(PipelinePrefixes) /\ Running

(***************************************************************************)
(* MessageSource.register_store, lines 64-67.  Called during setup, before *)
(* start() blocks in the loop.                                             *)
(***************************************************************************)
Register(store) ==
    /\ ~started
    /\ Len(stores) < MaxStores
    /\ has_stores' = TRUE
    /\ stores' = Append(stores, store)
    /\ UNCHANGED <<py, topic_prefix, node_names, stringify, started, nextId, inbox,
                   pc, cur, pending, idx, calls, results>>

\* MQTTSource.start, lines 165-171
Start ==
    /\ ~started
    /\ started' = TRUE
    /\ UNCHANGED <<py, topic_prefix, node_names, stringify, has_stores, stores,
                   nextId, inbox, pc, cur, pending, idx, calls, results>>

\* The broker delivers a message on a subscribed connection.
Publish(topics, payloads, maxEvents) ==
    /\ started
    /\ nextId <= maxEvents
    /\ \E t \in topics, p \in payloads :
          inbox' = Append(inbox, [id |-> nextId, topic |-> t, payload |-> p])
    /\ nextId' = nextId + 1
    /\ UNCHANGED <<py, topic_prefix, node_names, stringify, has_stores, stores,
                   started, pc, cur, pending, idx, calls, results>>

Outcome(msg, what) == [id |-> msg.id, topic |-> msg.topic, payload |-> msg.payload,
                       outcome |-> what]

(***************************************************************************)
(* on_message, lines 114-159, up to the head of the for loop.  An          *)
(* exception that leaves on_message leaves loop_forever and start() too:   *)
(* the process ends.                                                       *)
(***************************************************************************)
OnMessage ==
    /\ started
    /\ pc = "idle"
    /\ inbox # <<>>
    /\ LET msg   == Dequeue(inbox).msg
           match == RegexMatch(topic_prefix, msg.topic)
           check == NodeCheck(match.node_name, node_names)
           dec   == Decode(py, msg.payload, match.measurement_name, stringify)
       IN  /\ inbox' = Dequeue(inbox).rest
           /\ IF ~match.matched \/ ~check.proceed
              THEN \* lines 122-125: warning, return
                   /\ results' = Append(results, Outcome(msg, "dropped"))
                   /\ UNCHANGED <<pc, cur, pending, idx>>
              ELSE IF dec.exc # "none"
              THEN \* line 145: float() raised something other than ValueError
                   /\ results' = Append(results, Outcome(msg, dec.exc))
                   /\ pc' = "crashed"
                   /\ UNCHANGED <<cur, pending, idx>>
              ELSE IF ~has_stores
              THEN \* lines 159, 72: self._stores was never created
                   /\ results' = Append(results, Outcome(msg, "AttributeError"))
                   /\ pc' = "crashed"
                   /\ UNCHANGED <<cur, pending, idx>>
              ELSE /\ cur' = [id |-> msg.id, topic |-> msg.topic, payload |-> msg.payload,
                              node_name |-> match.node_name,
                              measurement_name |-> match.measurement_name,
                              fields |-> dec.fields, warned |-> check.warn]
                   /\ pending' = stores
                   /\ idx' = 1
                   /\ pc' = "dispatch"
                   /\ UNCHANGED results
    /\ UNCHANGED <<py, topic_prefix, node_names, stringify, has_stores, stores,
                   started, nextId, calls>>

(***************************************************************************)
(* One iteration of the for loop, lines 159-160: a synchronous store_msg   *)
(* call.  An exception raised by it is not caught in on_message.           *)
(***************************************************************************)
StoreMsg ==
    /\ pc = "dispatch"
    /\ idx <= Len(pending)
    /\ \E w \in WriteOutcomes :
          /\ calls' = Append(calls, [ev |-> cur.id, pos |-> idx, store |-> pending[idx],
                                     node_name |-> cur.node_name,
                                     measurement_name |-> cur.measurement_name,
                                     fields |-> cur.fields,
                                     write |-> w, raised |-> StoreMsgRaises(w)])
          /\ IF StoreMsgRaises(w)
             THEN /\ pc' = "crashed"
                  /\ results' = Append(results, Outcome(cur, w))
                  /\ cur' = NoEvent
                  /\ UNCHANGED idx
             ELSE /\ idx' = idx + 1
                  /\ UNCHANGED <<pc, results, cur>>
    /\ UNCHANGED <<py, topic_prefix, node_names, stringify, has_stores, stores,
                   started, nextId, inbox, pending>>

\* on_message returns after the last sink
Return ==
    /\ pc = "dispatch"
    /\ idx > Len(pending)
    /\ results' = Append(results, Outcome(cur, "done"))
    /\ pc' = "idle"
    /\ cur' = NoEvent
    /\ pending' = <<>>
    /\ idx' = 0
    /\ UNCHANGED <<py, topic_prefix, node_names, stringify, has_stores, stores,
                   started, nextId, inbox, calls>>

RegisterAny == \E s \in Sinks : Register(s)

PublishPipeline == Publish(PipelineTopics, PipelinePayloads, MaxEvents)

PublishDecode == Publish(DecodeTopics, Payloads, 1)

PublishTopic == Publish(AllTopics, {"23.4"}, 1)

Next == RegisterAny \/ Start \/ PublishPipeline \/ OnMessage \/ StoreMsg \/ Return

Spec == Init /\ [][Next]_vars

NextTopic == PublishTopic \/ OnMessage \/ StoreMsg \/ Return

SpecTopic == InitTopic /\ [][NextTopic]_vars

NextDecode == PublishDecode \/ OnMessage \/ StoreMsg \/ Return

SpecDecode == InitDecode /\ [][NextDecode]_vars

(***************************************************************************)
(* Properties                                                              *)
(***************************************************************************)
Finished(e) == \E i \in 1..Len(results) : results[i].id = e

CallsOf(e) == SelectSeq(calls, LAMBDA c : c.ev = e)

AllToken(t, from, to) == \A i \in from..to : t[i] \in TokenChars

\* The topic shape of the wire format: the prefix, literally, then
\* /<token>/<token>, then nothing or "/" and anything.
TopicShape(prefix, t) ==
    LET n == Len(prefix)
    IN  /\ Len(t) >= n + 4
        /\ SubSeq(t, 1, n) = prefix
        /\ t[n + 1] = "/"
        /\ \E e1 \in (n + 3)..Len(t) :
              /\ AllToken(t, n + 2, e1 - 1)
              /\ t[e1] = "/"
              /\ \E e2 \in (e1 + 2)..(Len(t) + 1) :
                    /\ AllToken(t, e1 + 1, e2 - 1)
                    /\ (e2 = Len(t) + 1 \/ t[e2] = "/")

\* The topic is exactly <prefix>/<node>/<measurement>; e1 is the position of
\* the slash between the two tokens.
ExactTopic(prefix, t, e1) ==
    LET n == Len(prefix)
    IN  /\ e1 \in (n + 3)..(Len(t) - 1)
        /\ SubSeq(t, 1, n) = prefix
        /\ t[n + 1] = "/"
        /\ AllToken(t, n + 2, e1 - 1)
        /\ t[e1] = "/"
        /\ AllToken(t, e1 + 1, Len(t))

\* C1: with two or more sinks registered, when the store call of an earlier
\* sink raises while an event is dispatched, every later-registered sink is
\* still called for that event, in registration order, with the same node,
\* measurement and fields.
C1_FanOutIsolatesFailures ==
    \A i \in 1..Len(calls) :
        (Len(stores) >= 2 /\ calls[i].raised /\ Finished(calls[i].ev)) =>
            \A q \in (calls[i].pos + 1)..Len(stores) :
                \E j \in (i + 1)..Len(calls) :
                    /\ calls[j].ev = calls[i].ev
                    /\ calls[j].pos = q
                    /\ calls[j].store = stores[q]
                    /\ calls[j].node_name = calls[i].node_name
                    /\ calls[j].measurement_name = calls[i].measurement_name
                    /\ calls[j].fields = calls[i].fields

\* C2: a message whose topic does not have the shape
\* <prefix>/<token>/<token>[/...] is dropped: no sink is called for it and
\* the handler returns normally.
C2_MalformedTopicDropped ==
    /\ pc = "dispatch" => TopicShape(topic_prefix, cur.topic)
    /\ \A i \in 1..Len(results) :
          ~TopicShape(topic_prefix, results[i].topic) =>
              /\ results[i].outcome = "dropped"
              /\ Len(CallsOf(results[i].id)) = 0

\* C3: for every configured prefix and every topic <prefix>/<node>/<measurement>
\* with well-formed tokens, parsing does not fail and the identity handed to
\* the sinks is exactly (node, measurement).
C3_ValidTopicParsed ==
    /\ \A i \in 1..Len(results) :
          (\E e1 \in 1..Len(results[i].topic) :
                ExactTopic(topic_prefix, results[i].topic, e1))
             => results[i].outcome # "dropped"
    /\ pc = "dispatch" =>
          \A e1 \in 1..Len(cur.topic) :
              ExactTopic(topic_prefix, cur.topic, e1) =>
                  /\ cur.node_name = SubSeq(cur.topic, Len(topic_prefix) + 2, e1 - 1)
                  /\ cur.measurement_name = SubSeq(cur.topic, e1 + 1, Len(cur.topic))

\* C4: a payload that decodes to a JSON object never makes decoding fail:
\* every key keeps one value, its float conversion where float() succeeds
\* and the decoded value otherwise, and the object is dispatched.
C4_JsonObjectCoercion ==
    /\ \A i \in 1..Len(results) :
          (IsJsonDict(results[i].payload)
             /\ RegexMatch(topic_prefix, results[i].topic).matched)
             => results[i].outcome \in {"done"} \cup WriteOutcomes
    /\ (pc = "dispatch" /\ IsJsonDict(cur.payload)) =>
          /\ DOMAIN cur.fields = DOMAIN JsonObjects[cur.payload]
          /\ \A k \in DOMAIN cur.fields :
                LET orig == JsonObjects[cur.payload][k]
                IN  cur.fields[k] = IF PyFloat(orig).exc = "none"
                                    THEN PyFloat(orig).val ELSE orig

\* C5: a payload that is not a JSON object is dispatched as the single field
\* "value": the raw payload as a string when the measurement is in the
\* stringify set, else its float value when the raw payload parses as one,
\* else the raw payload unchanged.
C5_ScalarPayloadValue ==
    (pc = "dispatch" /\ ~IsJsonDict(cur.payload)) =>
        /\ DOMAIN cur.fields = {"value"}
        /\ LET v == cur.fields["value"]
           IN  IF cur.measurement_name \in stringify
               THEN v.t = "str" /\ v.s = cur.payload
               ELSE IF cur.payload \in DOMAIN NumericText
               THEN v = PyFloatVal(NumericText[cur.payload])
               ELSE v.t \in {"str", "bytes"} /\ v.s = cur.payload

\* C6: store calls happen in arrival order of their events (for every
\* device and every sink), and no store call for an event is made before
\* every earlier event has been completely handled.
C6_ArrivalOrder ==
    /\ \A i, j \in 1..Len(calls) :
          i < j => \/ calls[i].ev < calls[j].ev
                   \/ calls[i].ev = calls[j].ev /\ calls[i].pos < calls[j].pos
    /\ \A i \in 1..Len(calls) :
          \A e \in 1..(calls[i].ev - 1) : Finished(e)
    /\ pc = "dispatch" => \A e \in 1..(cur.id - 1) : Finished(e)

\* Two events of one device have reached the same sink.
C6_Witness ==
    \E i, j \in 1..Len(calls) :
        /\ calls[i].ev < calls[j].ev
        /\ calls[i].node_name = calls[j].node_name
        /\ calls[i].store = calls[j].store

\* C7: a write failure (backend unreachable or write rejected) is caught
\* inside store_msg: the call returns normally and the consumer loop goes on.
C7_WriteFailureContained ==
    \A i \in 1..Len(calls) :
        calls[i].write # "ok" => ~calls[i].raised /\ pc # "crashed"

\* C8: a message whose node is not in the allow-list is not dropped; when
\* its handling completes, every registered sink was called, in order, with
\* the extracted node, the measurement and the decoded fields, and the only
\* trace of the allow-list is the warning.
C8_UnlistedNodeForwarded ==
    /\ \A i \in 1..Len(results) :
          LET r == results[i]
              m == RegexMatch(topic_prefix, r.topic)
              c == CallsOf(r.id)
          IN  (m.matched /\ m.node_name \notin node_names) =>
                /\ r.outcome # "dropped"
                /\ r.outcome = "done" =>
                      /\ Len(c) = Len(stores)
                      /\ \A q \in 1..Len(c) :
                            /\ c[q].store = stores[q]
                            /\ c[q].node_name = m.node_name
                            /\ c[q].measurement_name = m.measurement_name
                            /\ c[q].fields =
                                 Decode(py, r.payload, m.measurement_name, stringify).fields
    /\ pc = "dispatch" => (cur.warned <=> cur.node_name \notin node_names)

\* A message of a node outside the allow-list has been stored by a sink.
C8_Witness ==
    \E i \in 1..Len(results) :
        /\ results[i].outcome = "done"
        /\ RegexMatch(topic_prefix, results[i].topic).node_name \notin node_names
        /\ Len(CallsOf(results[i].id)) >= 1

\* C9: the stored prefix is empty, or starts with exactly one "/" and does
\* not end with "/"; no handler changes it.
C9_PrefixNormalized ==
    /\ [](\/ Len(topic_prefix) = 0
          \/ /\ topic_prefix[1] = "/"
             /\ Len(topic_prefix) >= 2 => topic_prefix[2] # "/"
             /\ topic_prefix[Len(topic_prefix)] # "/")
    /\ [][topic_prefix' = topic_prefix]_vars

\* C10: after k >= 0 register calls, dispatching a well-formed event calls
\* store exactly k times, the i-th call on the i-th registered sink, and
\* completes without error (unless a sink itself raised); registering only
\* appends.
C10_RegistrationDispatch ==
    /\ [](\A i \in 1..Len(results) :
            LET r == results[i]
                m == RegexMatch(topic_prefix, r.topic)
                c == CallsOf(r.id)
            IN  (/\ m.matched
                 /\ Decode(py, r.payload, m.measurement_name, stringify).exc = "none"
                 /\ r.outcome \notin WriteOutcomes) =>
                    /\ r.outcome = "done"
                    /\ Len(c) = Len(stores)
                    /\ \A q \in 1..Len(c) : c[q].store = stores[q])
    /\ [][/\ Len(stores') >= Len(stores)
          /\ SubSeq(stores', 1, Len(stores)) = stores]_vars

====
